---- MODULE Spec2Model ----
(***************************************************************************)
(* Model of the completion-response post-processing of straico-client      *)
(* (src/src/endpoints/completion/completion_response.rs):                  *)
(*   CompletionData::get_completion, Completion::parse and                 *)
(*   Message::into_tool_calls_response.                                    *)
(*                                                                         *)
(* A text (Box<str>) is modelled as the sequence of the string pieces it   *)
(* is the concatenation of.  The pieces are chosen so that the markers     *)
(* "<tool_call>" and "</tool_call>" occur in a text exactly where the     *)
(* pieces "<tool_" / "</tool_" are directly followed by the piece         *)
(* "call>", so substring search on the text is adjacent-piece search on    *)
(* the sequence.                                                           *)
(***************************************************************************)
EXTENDS Naturals, Sequences, FiniteSets

\* ------------------------------------------------------------------ bounds
\* Largest number of fragments a single-choice completion's text is made of.
MaxLen == 2
\* Largest number of choices of a completion.
MaxChoices == 3

\* ------------------------------------------------------------------ pieces
LT    == "<tool_"
LTC   == "</tool_"
GT    == "call>"
NL    == "\n"
SP    == " "
JsonA == "{\"name\":\"a\",\"arguments\":1}"
JsonB == "{\"name\":\"b\",\"arguments\":{}}"
JsonNoName == "{\"arguments\":1}"

OpenMarker  == <<LT, GT>>
CloseMarker == <<LTC, GT>>

\* Text fragments the inputs are built from.
Fragments ==
  { OpenMarker, CloseMarker, <<LT, NL, GT>>, <<NL>>, <<SP>>,
    <<JsonA>>, <<JsonB>>, <<JsonNoName>>,
    OpenMarker \o <<JsonA>> \o CloseMarker,
    OpenMarker \o <<SP, JsonB, NL>> \o CloseMarker,
    OpenMarker \o <<JsonNoName>> \o CloseMarker,
    <<LT, NL, GT, JsonA>> \o CloseMarker,
    <<LT, NL, GT, JsonA, LTC, NL, GT>> }

\* Fragments of the texts of completions with several choices.
MultiFragments ==
  { <<JsonNoName>>,
    OpenMarker \o <<JsonA>> \o CloseMarker,
    OpenMarker \o <<JsonNoName>> \o CloseMarker }

RECURSIVE Texts(_, _)
Texts(frags, n) ==
  IF n = 0 THEN { <<>> }
  ELSE LET shorter == Texts(frags, n - 1)
       IN  shorter \cup { t \o f : t \in shorter, f \in frags }

\* ------------------------------------------------------------- data shapes
\* Option<T>
None    == [some |-> FALSE, val |-> <<>>]
Some(x) == [some |-> TRUE, val |-> x]

\* ToolCall::Function { id, function: FunctionData { name, arguments } }
Function(id, function) ==
  [id |-> id, name |-> function.name, arguments |-> function.arguments]

FinishReasons == { "end_turn", "stop", "length" }
MultiFinishReasons == { "end_turn", "length" }
OtherRoles == { "user", "system", "tool" }
Labels == { "modelA", "modelB" }

\* A Choice together with its Message: role is the Message variant.
Choice(role, content, tool_calls, finish_reason) ==
  [role |-> role, content |-> content, tool_calls |-> tool_calls,
   finish_reason |-> finish_reason]

\* tool_calls values an assistant message can be decoded with.
InputToolCalls ==
  { None, Some(<<>>),
    Some(<< Function("call_0", [name |-> "a", arguments |-> "1"]) >>) }

ChoicesOver(texts, toolCalls, roles, reasons) ==
  { Choice("assistant", c, tc, fr) :
      c \in { None } \cup { Some(t) : t \in texts },
      tc \in toolCalls, fr \in reasons }
  \cup
  { Choice(r, Some(t), None, fr) :
      r \in roles, t \in texts, fr \in reasons }

SingleChoices ==
  ChoicesOver(Texts(Fragments, MaxLen), InputToolCalls, OtherRoles, FinishReasons)
MultiChoices ==
  ChoicesOver(Texts(MultiFragments, 1), { None }, { "user" }, MultiFinishReasons)

SeqsUpTo(S, n) == UNION { [1..k -> S] : k \in 0..n }

\* The Completion values (their choices) parse is run on.
Inputs == { <<c>> : c \in SingleChoices } \cup SeqsUpTo(MultiChoices, MaxChoices)

\* The Completion values held by the entries of a CompletionData.
ModelCompletions == SeqsUpTo(MultiChoices, 1)

\* ---------------------------------------------------------- text functions
\* str::replace("\n", "")
ReplaceNewlines(s) == SelectSeq(s, LAMBDA p : p # NL)

\* str::find(marker): index of the first occurrence at or after from, 0 if none
RECURSIVE Find(_, _, _)
Find(s, marker, from) ==
  IF from + 1 > Len(s) THEN 0
  ELSE IF s[from] = marker[1] /\ s[from + 1] = marker[2] THEN from
  ELSE Find(s, marker, from + 1)

Contains(s, marker) == Find(s, marker, 1) # 0

\* str::trim
RECURSIVE TrimStart(_)
TrimStart(s) ==
  IF s # <<>> /\ Head(s) = SP THEN TrimStart(Tail(s)) ELSE s

RECURSIVE TrimEnd(_)
TrimEnd(s) ==
  IF s # <<>> /\ s[Len(s)] = SP THEN TrimEnd(SubSeq(s, 1, Len(s) - 1)) ELSE s

Trim(s) == TrimEnd(TrimStart(s))

\* Regex "<tool_call>(.*?)</tool_call>", captures_iter: group 1 of the
\* successive leftmost, non-overlapping, minimal matches from position from.
RECURSIVE CapturesIter(_, _)
CapturesIter(s, from) ==
  LET open == Find(s, OpenMarker, from)
      close == IF open = 0 THEN 0 ELSE Find(s, CloseMarker, open + 2)
  IN  IF open = 0 \/ close = 0 THEN <<>>
      ELSE <<SubSeq(s, open + 2, close - 1)>> \o CapturesIter(s, close + 2)

\* serde_json::from_str::<FunctionData>: JSON whitespace around the value is
\* skipped; the value must be one object with the fields name and arguments.
FromStr(s) ==
  LET v == Trim(s)
  IN  IF v = <<JsonA>> THEN [ok |-> TRUE, val |-> [name |-> "a", arguments |-> "1"]]
      ELSE IF v = <<JsonB>> THEN [ok |-> TRUE, val |-> [name |-> "b", arguments |-> "{}"]]
      ELSE [ok |-> FALSE, val |-> [name |-> "", arguments |-> ""]]

\* Variant of Collect: the decoded calls are gathered last-to-first.
RECURSIVE CollectReversed(_)
CollectReversed(caps) ==
  IF caps = <<>> THEN [ok |-> TRUE, val |-> <<>>]
  ELSE LET d == FromStr(Trim(Head(caps)))
       IN  IF ~d.ok THEN [ok |-> FALSE, val |-> <<>>]
           ELSE LET rest == CollectReversed(Tail(caps))
                IN  IF ~rest.ok THEN rest
                    ELSE [ok |-> TRUE,
                          val |-> rest.val \o <<Function("func", d.val)>>]

\* .map(trim).map(from_str -> ToolCall::Function).collect::<Result<Vec<_>, _>>()
RECURSIVE Collect(_)
Collect(caps) ==
  IF caps = <<>> THEN [ok |-> TRUE, val |-> <<>>]
  ELSE LET d == FromStr(Trim(Head(caps)))
       IN  IF ~d.ok THEN [ok |-> FALSE, val |-> <<>>]
           ELSE LET rest == Collect(Tail(caps))
                IN  IF ~rest.ok THEN rest
                    ELSE [ok |-> TRUE,
                          val |-> <<Function("func", d.val)>> \o rest.val]

\* Variant of IntoToolCallsResponse: the markers are looked for after the
\* newlines have been removed.
IntoToolCallsResponseStripFirst(m) ==
  IF m.role = "assistant" /\ m.content.some
     /\ (Contains(ReplaceNewlines(m.content.val), OpenMarker)
         \/ Contains(ReplaceNewlines(m.content.val), CloseMarker))
  THEN LET items == Collect(CapturesIter(ReplaceNewlines(m.content.val), 1))
       IN  IF ~items.ok THEN [ok |-> FALSE, msg |-> m]
           ELSE [ok |-> TRUE,
                 msg |-> [m EXCEPT !.tool_calls = Some(items.val), !.content = None]]
  ELSE [ok |-> TRUE, msg |-> m]

\* Variant of IntoToolCallsResponse: content is taken before the spans are decoded.
IntoToolCallsResponseTakeFirst(m) ==
  IF m.role = "assistant" /\ m.content.some
     /\ (Contains(m.content.val, OpenMarker) \/ Contains(m.content.val, CloseMarker))
  THEN LET items == Collect(CapturesIter(ReplaceNewlines(m.content.val), 1))
       IN  IF ~items.ok THEN [ok |-> FALSE, msg |-> [m EXCEPT !.content = None]]
           ELSE [ok |-> TRUE,
                 msg |-> [m EXCEPT !.tool_calls = Some(items.val), !.content = None]]
  ELSE [ok |-> TRUE, msg |-> m]

\* Variant of IntoToolCallsResponse: the role of the message is not looked at.
IntoToolCallsResponseAnyRole(m) ==
  IF m.content.some
     /\ (Contains(m.content.val, OpenMarker) \/ Contains(m.content.val, CloseMarker))
  THEN LET items == Collect(CapturesIter(ReplaceNewlines(m.content.val), 1))
       IN  IF ~items.ok THEN [ok |-> FALSE, msg |-> m]
           ELSE [ok |-> TRUE,
                 msg |-> [m EXCEPT !.tool_calls = Some(items.val), !.content = None]]
  ELSE [ok |-> TRUE, msg |-> m]

\* Variant of IntoToolCallsResponse: the calls are added to the ones present
\* and content is kept.
IntoToolCallsResponseAppend(m) ==
  IF m.role = "assistant" /\ m.content.some
     /\ (Contains(m.content.val, OpenMarker) \/ Contains(m.content.val, CloseMarker))
  THEN LET items == Collect(CapturesIter(ReplaceNewlines(m.content.val), 1))
       IN  IF ~items.ok THEN [ok |-> FALSE, msg |-> m]
           ELSE [ok |-> TRUE,
                 msg |-> [m EXCEPT !.tool_calls = Some(m.tool_calls.val \o items.val)]]
  ELSE [ok |-> TRUE, msg |-> m]

\* Message::into_tool_calls_response: the Result and the message afterwards.
IntoToolCallsResponse(m) ==
  IF m.role = "assistant" /\ m.content.some
     /\ (Contains(m.content.val, OpenMarker) \/ Contains(m.content.val, CloseMarker))
  THEN LET items == Collect(CapturesIter(ReplaceNewlines(m.content.val), 1))
       IN  IF ~items.ok THEN [ok |-> FALSE, msg |-> m]
           ELSE [ok |-> TRUE,
                 msg |-> [m EXCEPT !.tool_calls = Some(items.val), !.content = None]]
  ELSE [ok |-> TRUE, msg |-> m]

\* Variant of FinishReason: "end_turn" is rewritten before content is looked at.
FinishReasonStopFirst(x) ==
  IF x.role = "assistant"
  THEN IF x.finish_reason = "end_turn" THEN "stop"
       ELSE IF ~x.content.some THEN "tool_calls"
       ELSE x.finish_reason
  ELSE x.finish_reason

\* The finish_reason assignment of the loop body of Completion::parse.
FinishReason(x) ==
  IF x.role = "assistant"
  THEN IF ~x.content.some THEN "tool_calls"
       ELSE IF x.finish_reason = "end_turn" THEN "stop"
       ELSE x.finish_reason
  ELSE x.finish_reason

\* Variant of ParseFrom: a failing choice is skipped and the later choices are
\* still processed before the error is returned.
RECURSIVE ParseFromAll(_, _)
ParseFromAll(choices, i) ==
  IF i > Len(choices) THEN [ok |-> TRUE, choices |-> choices]
  ELSE LET r == IntoToolCallsResponse(choices[i])
       IN  IF ~r.ok
           THEN [ok |-> FALSE,
                 choices |-> ParseFromAll([choices EXCEPT ![i] = r.msg], i + 1).choices]
           ELSE ParseFromAll(
                  [choices EXCEPT ![i] =
                     [r.msg EXCEPT !.finish_reason = FinishReason(r.msg)]],
                  i + 1)

\* Completion::parse from choice i on: Ok with the choices, or Err with the
\* choices as the in-place calls have left them when the error is returned.
RECURSIVE ParseFrom(_, _)
ParseFrom(choices, i) ==
  IF i > Len(choices) THEN [ok |-> TRUE, choices |-> choices]
  ELSE LET r == IntoToolCallsResponse(choices[i])
       IN  IF ~r.ok THEN [ok |-> FALSE, choices |-> [choices EXCEPT ![i] = r.msg]]
           ELSE ParseFrom(
                  [choices EXCEPT ![i] =
                     [r.msg EXCEPT !.finish_reason = FinishReason(r.msg)]],
                  i + 1)

\* ------------------------------------------------------------------- state
VARIABLES
  completions,  \* CompletionData.completions: label -> Completion (choices)
  self,         \* the Completion in hand (its choices)
  phase,        \* "response" | "panicked" | "decoded" | "parsed" | "failed"
                \* | "reparsed" | "refailed"
  given,        \* history: the Completion parse was first called on
  once          \* history: the Completion the first parse returned

vars == <<completions, self, phase, given, once>>

NoData == [l \in {} |-> <<>>]

\* A Completion has been decoded from the wire and is about to be parsed.
Init ==
  /\ completions = NoData
  /\ self \in Inputs
  /\ phase = "decoded"
  /\ given = self
  /\ once = <<>>

\* Completion::parse on a freshly decoded Completion.
Parse ==
  /\ phase = "decoded"
  /\ LET r == ParseFrom(self, 1)
     IN  /\ self' = r.choices
         /\ phase' = IF r.ok THEN "parsed" ELSE "failed"
         /\ once' = IF r.ok THEN r.choices ELSE once
  /\ given' = self
  /\ UNCHANGED completions

\* Completion::parse on the Completion an earlier parse returned.
Reparse ==
  /\ phase = "parsed"
  /\ LET r == ParseFrom(self, 1)
     IN  /\ self' = r.choices
         /\ phase' = IF r.ok THEN "reparsed" ELSE "refailed"
  /\ UNCHANGED <<completions, given, once>>

Next == Parse \/ Reparse

Spec == Init /\ [][Next]_vars

\* A CompletionData has been decoded from the wire.
InitSelect ==
  /\ completions \in UNION { [ls -> ModelCompletions] : ls \in SUBSET Labels }
  /\ self = <<>>
  /\ phase = "response"
  /\ given = <<>>
  /\ once = <<>>

\* Variant of GetCompletion: the selected Completion is parsed on the way out.
GetCompletionParsed ==
  /\ phase = "response"
  /\ IF DOMAIN completions = {}
     THEN /\ phase' = "panicked"
          /\ UNCHANGED self
     ELSE /\ \E l \in DOMAIN completions :
               self' = ParseFrom(completions[l], 1).choices
          /\ phase' = "decoded"
  /\ given' = self'
  /\ UNCHANGED <<completions, once>>

\* Variant of GetCompletion: an empty mapping yields an empty Completion.
GetCompletionOrDefault ==
  /\ phase = "response"
  /\ IF DOMAIN completions = {}
     THEN /\ phase' = "decoded"
          /\ self' = <<>>
     ELSE /\ \E l \in DOMAIN completions : self' = completions[l]
          /\ phase' = "decoded"
  /\ given' = self'
  /\ UNCHANGED <<completions, once>>

\* CompletionData::get_completion: into_values().map(..).next().unwrap().
\* HashMap iteration order is unspecified: any entry can come first.
GetCompletion ==
  /\ phase = "response"
  /\ IF DOMAIN completions = {}
     THEN /\ phase' = "panicked"
          /\ UNCHANGED self
     ELSE /\ \E l \in DOMAIN completions : self' = completions[l]
          /\ phase' = "decoded"
  /\ given' = self'
  /\ UNCHANGED <<completions, once>>

NextSelect == GetCompletion

SpecSelect == InitSelect /\ [][NextSelect]_vars

\* ------------------------------------------------------------ claim helpers
Assistant(c) == c.role = "assistant"

\* The text contains the opening or the closing marker.
HasMarker(t) == Contains(t, OpenMarker) \/ Contains(t, CloseMarker)

\* The markup spans of a text: what lies between an opening marker and the
\* next closing marker once the newlines are removed.
Spans(t) == CapturesIter(ReplaceNewlines(t), 1)

\* The span is, up to surrounding blanks, one JSON object with name and arguments.
IsFunctionJson(b) ==
  LET v == SelectSeq(b, LAMBDA p : p # SP)
  IN  v = <<JsonA>> \/ v = <<JsonB>>

\* The tool call a decodable span stands for.
ToolCallOf(b) ==
  IF SelectSeq(b, LAMBDA p : p # SP) = <<JsonA>>
  THEN [id |-> "func", name |-> "a", arguments |-> "1"]
  ELSE [id |-> "func", name |-> "b", arguments |-> "{}"]

ToolCallsOf(t) == [k \in 1..Len(Spans(t)) |-> ToolCallOf(Spans(t)[k])]

\* An assistant choice whose text contains a marker.
MarkedUp(c) == Assistant(c) /\ c.content.some /\ HasMarker(c.content.val)

\* ... with k >= 1 spans, all decodable.
WellFormed(c) ==
  /\ MarkedUp(c)
  /\ Spans(c.content.val) # <<>>
  /\ \A k \in 1..Len(Spans(c.content.val)) : IsFunctionJson(Spans(c.content.val)[k])

\* ... with a span that does not decode.
Malformed(c) ==
  /\ MarkedUp(c)
  /\ \E k \in 1..Len(Spans(c.content.val)) : ~IsFunctionJson(Spans(c.content.val)[k])

\* Index of the first malformed choice, Len(cs) + 1 if there is none.
FirstMalformed(cs) ==
  CHOOSE i \in 1..(Len(cs) + 1) :
    /\ i = Len(cs) + 1 \/ Malformed(cs[i])
    /\ \A j \in 1..(i - 1) : ~Malformed(cs[j])

\* What extraction and normalization make of a choice that does not fail.
Expected(c) ==
  IF MarkedUp(c)
  THEN [c EXCEPT !.content = None,
                 !.tool_calls = Some(ToolCallsOf(c.content.val)),
                 !.finish_reason = "tool_calls"]
  ELSE IF Assistant(c)
  THEN [c EXCEPT !.finish_reason =
          IF ~c.content.some THEN "tool_calls"
          ELSE IF c.finish_reason = "end_turn" THEN "stop"
          ELSE c.finish_reason]
  ELSE c

\* The first parse has returned.
Returned == phase \in { "parsed", "failed" }

\* ------------------------------------------------------------------ claims

\* C1 as stated: for every assistant choice whose text has k >= 1 markup spans,
\* all decodable, parse succeeds and afterwards the choice's tool_calls are
\* exactly the k calls of the spans in source order, its content is absent and
\* its finish_reason is "tool_calls".
C1_AlwaysExtracted ==
  Returned =>
    \A i \in DOMAIN given :
      WellFormed(given[i]) =>
        /\ phase = "parsed"
        /\ self[i].tool_calls = Some(ToolCallsOf(given[i].content.val))
        /\ self[i].content = None
        /\ self[i].finish_reason = "tool_calls"

\* C1 amended: for every assistant choice whose text has k >= 1 markup spans,
\* all decodable: parse succeeds unless some choice of the completion has a
\* span that does not decode, and whenever no choice before it has such a span
\* (parse succeeds, or fails only at a later choice) its tool_calls are exactly
\* the k calls of the spans in source order, its content is absent and its
\* finish_reason is "tool_calls", whatever finish_reason and tool_calls it
\* came with.
C1_ToolCallsExtracted ==
  Returned =>
    \A i \in DOMAIN given :
      WellFormed(given[i]) =>
        /\ FirstMalformed(given) > Len(given) => phase = "parsed"
        /\ i < FirstMalformed(given) =>
             /\ self[i].tool_calls = Some(ToolCallsOf(given[i].content.val))
             /\ self[i].content = None
             /\ self[i].finish_reason = "tool_calls"

\* C1 witness: a choice with two decodable spans, a then b, that came with a
\* tool call of its own and finish_reason "end_turn", has been parsed.
C1_Witness ==
  /\ phase = "parsed"
  /\ \E i \in DOMAIN given :
       /\ WellFormed(given[i])
       /\ Len(Spans(given[i].content.val)) = 2
       /\ given[i].tool_calls.some /\ given[i].tool_calls.val # <<>>
       /\ given[i].finish_reason = "end_turn"
       /\ Len(self[i].tool_calls.val) = 2
       /\ self[i].tool_calls.val[1].name = "a"
       /\ self[i].tool_calls.val[2].name = "b"

\* C2 as stated: an assistant message whose text contains no "<tool_call>"
\* comes out of processing with content and tool_calls as they were.
C2_NoOpenMarkerUnchanged ==
  Returned =>
    \A i \in DOMAIN given :
      ( /\ Assistant(given[i]) /\ given[i].content.some
        /\ ~Contains(given[i].content.val, OpenMarker) ) =>
        /\ self[i].content = given[i].content
        /\ self[i].tool_calls = given[i].tool_calls

\* C2 amended: an assistant message whose text contains neither "<tool_call>"
\* nor "</tool_call>" comes out of processing with content and tool_calls as
\* they were.
C2_NoMarkerUnchanged ==
  Returned =>
    \A i \in DOMAIN given :
      ( /\ Assistant(given[i]) /\ given[i].content.some
        /\ ~HasMarker(given[i].content.val) ) =>
        /\ self[i].content = given[i].content
        /\ self[i].tool_calls = given[i].tool_calls

\* C2 witness: a parsed assistant message whose markers are both broken by a
\* newline (a decodable span appears once the newlines are removed) kept its
\* text and its tool call.
C2_Witness ==
  /\ phase = "parsed"
  /\ \E i \in DOMAIN given :
       /\ Assistant(given[i]) /\ given[i].content.some
       /\ ~HasMarker(given[i].content.val)
       /\ Spans(given[i].content.val) # <<>>
       /\ given[i].tool_calls.val # <<>>
       /\ self[i].content = given[i].content
       /\ self[i].tool_calls = given[i].tool_calls

\* C3: after a successful parse the finish_reason of every assistant choice is
\* "tool_calls" if its content is absent, else "stop" if it came as "end_turn",
\* else the finish_reason it came with.
C3_FinishReason ==
  phase = "parsed" =>
    \A i \in DOMAIN given :
      Assistant(given[i]) =>
        self[i].finish_reason =
          IF ~self[i].content.some THEN "tool_calls"
          ELSE IF given[i].finish_reason = "end_turn" THEN "stop"
          ELSE given[i].finish_reason

\* C3 witness: an "end_turn" choice that came without content and without
\* tool_calls ended as "tool_calls".
C3_Witness ==
  /\ phase = "parsed"
  /\ \E i \in DOMAIN given :
       /\ Assistant(given[i])
       /\ ~given[i].content.some /\ ~given[i].tool_calls.some
       /\ given[i].finish_reason = "end_turn"
       /\ self[i].finish_reason = "tool_calls"

\* C4: when a span of an assistant message does not decode, the call fails
\* and the message has the content and the tool_calls it had before the call.
C4_AllOrNothing ==
  Returned =>
    LET f == FirstMalformed(given)
    IN  f <= Len(given) =>
          /\ phase = "failed"
          /\ self[f].content = given[f].content
          /\ self[f].tool_calls = given[f].tool_calls

\* C4 witness: the call failed on a message whose first span decodes and whose
\* second span does not.
C4_Witness ==
  /\ phase = "failed"
  /\ Len(given) = 1
  /\ Assistant(given[1]) /\ given[1].content.some
  /\ Len(Spans(given[1].content.val)) = 2
  /\ IsFunctionJson(Spans(given[1].content.val)[1])
  /\ ~IsFunctionJson(Spans(given[1].content.val)[2])
  /\ given[1].tool_calls.val # <<>>

\* C5: when parse fails, the choices before the first failing one are
\* extracted and normalized, and the failing choice and all later ones are as
\* they came.
C5_FailFast ==
  phase = "failed" =>
    LET f == FirstMalformed(given)
    IN  /\ f <= Len(given)
        /\ \A i \in 1..(f - 1) : self[i] = Expected(given[i])
        /\ \A i \in f..Len(given) : self[i] = given[i]

\* C5 witness: parse failed on the second of three choices; the first one was
\* changed, the third one would have been and was not.
C5_Witness ==
  /\ phase = "failed"
  /\ Len(given) = 3
  /\ FirstMalformed(given) = 2
  /\ self[1] # given[1]
  /\ Expected(given[3]) # given[3]
  /\ self[3] = given[3]

\* C6: a user, system or tool choice comes out of parse as it came, and parse
\* never fails unless an assistant choice has a span that does not decode.
C6_OtherRolesUntouched ==
  Returned =>
    /\ \A i \in DOMAIN given :
         given[i].role \in OtherRoles => self[i] = given[i]
    /\ phase = "failed" => FirstMalformed(given) <= Len(given)

\* C6 witness: a parsed non-assistant choice with a span that does not decode
\* and finish_reason "end_turn".
C6_Witness ==
  /\ phase = "parsed"
  /\ \E i \in DOMAIN given :
       /\ given[i].role \in OtherRoles
       /\ \E k \in 1..Len(Spans(given[i].content.val)) :
            ~IsFunctionJson(Spans(given[i].content.val)[k])
       /\ given[i].finish_reason = "end_turn"
       /\ self[i] = given[i]

\* C7 as stated: whenever extraction clears the content of an assistant
\* message, tool_calls holds at least one entry.
C7_ClearedContentHasToolCalls ==
  phase = "parsed" =>
    \A i \in DOMAIN given :
      ( /\ Assistant(given[i])
        /\ given[i].content.some /\ ~self[i].content.some ) =>
        /\ self[i].tool_calls.some
        /\ Len(self[i].tool_calls.val) >= 1

\* C8: on a non-empty mapping get_completion returns the Completion of one of
\* its entries, as it is in the mapping.
C8_ReturnsAnEntry ==
  (phase # "response" /\ DOMAIN completions # {}) =>
    /\ phase = "decoded"
    /\ \E l \in DOMAIN completions : self = completions[l]

\* C8 witness: the only entry was returned, a Completion parse would change.
C8_Witness ==
  /\ phase = "decoded"
  /\ Cardinality(DOMAIN completions) = 1
  /\ Len(self) = 1
  /\ WellFormed(self[1])
  /\ self[1].finish_reason = "end_turn"
  /\ \A l \in DOMAIN completions : self = completions[l]

\* C9: on an empty mapping get_completion panics; no Completion is returned.
C9_EmptyPanics ==
  (phase # "response" /\ DOMAIN completions = {}) => phase = "panicked"

\* C9 witness: get_completion has panicked on the empty mapping.
C9_Witness ==
  /\ phase = "panicked"
  /\ DOMAIN completions = {}

\* C10: parsing the result of a successful parse succeeds and returns it
\* unchanged, and a parsed Completion has no assistant choice with
\* finish_reason "end_turn" or with a marker in its content.
C10_Idempotent ==
  /\ phase # "refailed"
  /\ phase = "reparsed" => self = once
  /\ phase = "parsed" =>
       \A i \in DOMAIN self :
         Assistant(self[i]) =>
           /\ self[i].finish_reason # "end_turn"
           /\ self[i].content.some => ~HasMarker(self[i].content.val)

\* C10 witness: a Completion was parsed twice whose first parse extracted tool
\* calls from one choice and rewrote "end_turn" to "stop" on another.
C10_Witness ==
  /\ phase = "reparsed"
  /\ \E i, j \in DOMAIN given :
       /\ WellFormed(given[i])
       /\ self[i].tool_calls.val # <<>>
       /\ Assistant(given[j]) /\ given[j].finish_reason = "end_turn"
       /\ self[j].finish_reason = "stop"

====
